---- MODULE Spec2Model ----
(***************************************************************************)
(* LoRa Morse Messenger (260204_esp32c3_lora.ino): the Morse codec, the    *)
(* serial input accumulator, the transmit and receive handlers, the timed  *)
(* status LEDs and the statistics heartbeat of the event loop.             *)
(*                                                                         *)
(* A text (Arduino String, char array) is a sequence of one-character      *)
(* strings.  unsigned long is 32 bits wide on the ESP32-C3; a 32-bit value *)
(* is kept as its two 16-bit halves [hi, lo], so that the arithmetic       *)
(* modulo 2^32 stays within the range of the model checker's integers.     *)
(***************************************************************************)
EXTENDS Integers, Sequences, FiniteSets, TLC

\* ------------------------------------------------------------------------
\* Program constants
\* ------------------------------------------------------------------------
LED_DUR == 300
MAX_SERIAL_BUF == 100
MAX_MESSAGE_LEN == 256
HEARTBEAT == 30000
LCD_COLS == 20
LCD_ROWS == 4
TEXT_COLS == 16
TABLE_SIZE == 26
HALFWORD == 65536

\* ------------------------------------------------------------------------
\* Bounds of the model
\* ------------------------------------------------------------------------
MaxIn == 1         \* longest free-form burst of serial input, into a short buffer
MaxTx == 2         \* transmissions after which no further input is offered
MaxRx == 1         \* receptions after which no further packet is offered
MaxTextLen == 3    \* longest text of the codec round trip
MaxNoise == 2      \* longest free-form radio packet
MaxTicks == 3      \* clock advances of the event-loop specification

\* ------------------------------------------------------------------------
\* Characters
\* ------------------------------------------------------------------------
UpperCase == <<"A","B","C","D","E","F","G","H","I","J","K","L","M",
               "N","O","P","Q","R","S","T","U","V","W","X","Y","Z">>
LowerCase == <<"a","b","c","d","e","f","g","h","i","j","k","l","m",
               "n","o","p","q","r","s","t","u","v","w","x","y","z">>
NUL == "NUL"
LineBreaks == {"\n", "\r"}

UpperChars == {UpperCase[j] : j \in 1..TABLE_SIZE}
LowerChars == {LowerCase[j] : j \in 1..TABLE_SIZE}

\* c - 'A' and c - 'a', counted from 1
UpperIndex == [c \in UpperChars |-> CHOOSE j \in 1..TABLE_SIZE : UpperCase[j] = c]
LowerIndex == [c \in LowerChars |-> CHOOSE j \in 1..TABLE_SIZE : LowerCase[j] = c]

IsUpperChar(c) == c \in UpperChars
LetterIndex(c) == UpperIndex[c]

ToUpperChar(c) == IF c \in LowerChars THEN UpperCase[LowerIndex[c]] ELSE c

\* String::toUpperCase
toUpperCase(text) == [i \in 1..Len(text) |-> ToUpperChar(text[i])]

\* String::substring(0, n)
Substring(s, n) == SubSeq(s, 1, IF Len(s) < n THEN Len(s) ELSE n)

Rep(c, n) == [i \in 1..n |-> c]

RECURSIVE SeqsUpTo(_, _)
SeqsUpTo(S, n) ==
  IF n = 0 THEN {<<>>}
  ELSE LET shorter == SeqsUpTo(S, n - 1)
       IN  shorter \cup {Append(s, c) : s \in shorter, c \in S}

\* ------------------------------------------------------------------------
\* Morse table
\* ------------------------------------------------------------------------
morse_alpha ==
  << <<".","-">>,         <<"-",".",".",".">>, <<"-",".","-",".">>,
     <<"-",".",".">>,     <<".">>,             <<".",".","-",".">>,
     <<"-","-",".">>,     <<".",".",".",".">>, <<".",".">>,
     <<".","-","-","-">>, <<"-",".","-">>,     <<".","-",".",".">>,
     <<"-","-">>,         <<"-",".">>,         <<"-","-","-">>,
     <<".","-","-",".">>, <<"-","-",".","-">>, <<".","-",".">>,
     <<".",".",".">>,     <<"-">>,             <<".",".","-">>,
     <<".",".",".","-">>, <<".","-","-">>,     <<"-",".",".","-">>,
     <<"-",".","-","-">>, <<"-","-",".",".">> >>

\* ------------------------------------------------------------------------
\* Encoder: the loop of transmitMorse over the upper-cased text
\* ------------------------------------------------------------------------
\* variant: a letter's symbol without its separating space
EncodeChar_NoSeparator(c) ==
  IF IsUpperChar(c) THEN morse_alpha[LetterIndex(c)]
  ELSE IF c = " " THEN <<"/", " ">>
  ELSE <<>>

\* variant: a character without a code is sent as a placeholder symbol
EncodeChar_Placeholder(c) ==
  IF IsUpperChar(c) THEN morse_alpha[LetterIndex(c)] \o <<" ">>
  ELSE IF c = " " THEN <<"/", " ">>
  ELSE <<"?", " ">>

EncodeChar(c) ==
  IF IsUpperChar(c) THEN morse_alpha[LetterIndex(c)] \o <<" ">>
  ELSE IF c = " " THEN <<"/", " ">>
  ELSE <<>>

\* the for loop over text[lo..hi], appending to out; the range is split in
\* halves, which appends the same characters in the same order
RECURSIVE EncodeLoop(_, _, _, _)
EncodeLoop(text, lo, hi, out) ==
  IF lo > hi THEN out
  ELSE IF lo = hi THEN out \o EncodeChar(text[lo])
  ELSE LET mid == (lo + hi) \div 2
           half == EncodeLoop(text, lo, mid, out)
       IN  \* the test has the first half evaluated before the second
           IF Len(half) >= Len(out)
           THEN EncodeLoop(text, mid + 1, hi, half)
           ELSE half

Encode(text) == EncodeLoop(toUpperCase(text), 1, Len(text), <<>>)

\* ------------------------------------------------------------------------
\* Decoder: decodeMorse.  The result carries the decoded text and the
\* number of times decodeErrors was incremented.
\* ------------------------------------------------------------------------
\* the table scan of decodeMorse: the letter of the first matching entry,
\* '?' when none matches
MorseSymbols == {morse_alpha[j] : j \in 1..TABLE_SIZE}
MorseIndex ==
  [m \in MorseSymbols |-> CHOOSE j \in 1..TABLE_SIZE : morse_alpha[j] = m]

LookupSymbol(symbol) ==
  IF symbol \in MorseSymbols
  THEN [ch |-> UpperCase[MorseIndex[symbol]], err |-> 0]
  ELSE [ch |-> "?", err |-> 1]

\* one pass of the for loop body; d.i is the loop index (from 1), and a pass
\* with the index past the end leaves d alone
DecodePass(morse, d) ==
  IF d.i > Len(morse) THEN d
  ELSE IF morse[d.i] = " "
       THEN IF Len(d.symbol) > 0
            THEN [i |-> d.i + 1, symbol |-> <<>>,
                  decoded |-> Append(d.decoded, LookupSymbol(d.symbol).ch),
                  errors |-> d.errors + LookupSymbol(d.symbol).err]
            ELSE [d EXCEPT !.i = @ + 1]
       ELSE IF morse[d.i] = "/"
            THEN [d EXCEPT !.decoded = Append(@, " "), !.i = @ + 2]
            ELSE [d EXCEPT !.symbol = Append(@, morse[d.i]), !.i = @ + 1]

\* n passes of the loop, which ends as soon as the index is past the end
RECURSIVE DecodePasses(_, _, _)
DecodePasses(morse, d, n) ==
  IF n = 0 \/ d.i > Len(morse) THEN d
  ELSE IF n = 1 THEN DecodePass(morse, d)
  ELSE LET half == DecodePasses(morse, d, n \div 2)
       IN  IF half.i > Len(morse) THEN half
           ELSE DecodePasses(morse, half, n - (n \div 2))

\* variant: a symbol still pending when the stream ends is dropped
decodeMorse_DropLast(morse) ==
  LET d == DecodePasses(morse,
             [i |-> 1, symbol |-> <<>>, decoded |-> <<>>, errors |-> 0],
             Len(morse))
  IN  [decoded |-> d.decoded, errors |-> d.errors]

\* the loop runs until the index passes the end, which takes at most
\* morse.length() passes; then the last symbol is looked up if the stream
\* did not end with a space
decodeMorse(morse) ==
  LET d == DecodePasses(morse,
             [i |-> 1, symbol |-> <<>>, decoded |-> <<>>, errors |-> 0],
             Len(morse))
  IN  IF Len(d.symbol) > 0
      THEN [decoded |-> Append(d.decoded, LookupSymbol(d.symbol).ch),
            errors  |-> d.errors + LookupSymbol(d.symbol).err]
      ELSE [decoded |-> d.decoded, errors |-> d.errors]

\* ------------------------------------------------------------------------
\* Number formatting of Print (LCD row 3)
\* ------------------------------------------------------------------------
Digit == <<"0","1","2","3","4","5","6","7","8","9">>

RECURSIVE NatToStr(_)
NatToStr(n) ==
  IF n < 10 THEN <<Digit[n + 1]>>
  ELSE Append(NatToStr(n \div 10), Digit[(n % 10) + 1])

\* Print::print(int)
IntToStr(n) == IF n < 0 THEN <<"-">> \o NatToStr(-n) ELSE NatToStr(n)

\* Print::print(float, 1) of q/4 (packetSnr is a multiple of 0.25 dB):
\* sign, then the value rounded by adding 0.05, integer part, '.', one digit
SnrToStr(q) ==
  LET a == IF q < 0 THEN -q ELSE q
      twentieths == 5 * a + 1
  IN  (IF q < 0 THEN <<"-">> ELSE <<>>)
      \o NatToStr(twentieths \div 20) \o <<".">>
      \o <<Digit[((twentieths % 20) \div 2) + 1]>>

\* ------------------------------------------------------------------------
\* LCD: LCD_ROWS rows (0..3) of LCD_COLS cells; setCursor(col, row) followed
\* by print(s) overwrites the cells from col on, cells past the last column
\* of the row are not part of the row
\* ------------------------------------------------------------------------
Blank == Rep(" ", LCD_COLS)

LcdPrint(l, row, col, s) ==
  [l EXCEPT ![row] =
     [k \in 1..LCD_COLS |->
        IF k > col /\ k <= col + Len(s) THEN s[k - col] ELSE @[k]]]

LcdInit ==
  [r \in 0..(LCD_ROWS - 1) |->
     CASE r = 0 -> <<"L","O","R","A"," ","M","O","R","S","E"," ",
                     "S","Y","S","T","E","M"," "," "," ">>
       [] r = 3 -> <<"S","T","A","T","U","S",":"," ","R","E","A","D","Y",
                     " "," "," "," "," "," "," ">>
       [] OTHER -> Blank]

\* the characters of print(s) that come after the cursor has passed the last
\* column of its row; where they land is the display controller's matter
LcdSpill(col, s) ==
  IF col + Len(s) > LCD_COLS THEN SubSeq(s, LCD_COLS - col + 1, Len(s))
  ELSE <<>>

TxLabel == <<"T","X",":">> \o Rep(" ", LCD_COLS - 3)
RxLabel == <<"R","X",":">> \o Rep(" ", LCD_COLS - 3)

\* ------------------------------------------------------------------------
\* State
\* ------------------------------------------------------------------------
VARIABLES
  pc,              \* position of loop(): "serial", "lora", "leds", "stats"
  millis,          \* the millisecond clock
  ticks,           \* clock advances so far
  serialBuf,       \* String serialBuf
  txTime, rxTime, lastDebugPrint,
  txCount, rxCount, decodeErrors,   \* kept below 2^32 by MaxTx and MaxRx
  txLed, rxLed,    \* pin levels, active-low: "LOW" is lit
  lcd,             \* the display contents
  lcdSpill,        \* characters the last display update printed past a row's end
  txText,          \* argument of the last transmitMorse call
  serialLog,       \* what the last flush printed: "INPUT" or "WARN"
  loraTx,          \* packet of the last beginPacket/print/endPacket
  loraSent,        \* number of packets handed to the radio by endPacket
  loraRx,          \* packet reported by the last successful parsePacket
  incoming,        \* char incoming[]: the cells written by the last reception
  decoded,         \* result of the last decodeMorse call
  sinceTx, sinceRx \* milliseconds that really passed since txTime and rxTime
                   \* were last set (since power-up for the initial 0), as
                   \* [hi, lo] with no limit on hi

vars == <<pc, millis, ticks, serialBuf, txTime, rxTime, lastDebugPrint,
          txCount, rxCount, decodeErrors, txLed, rxLed, lcd, lcdSpill, txText,
          serialLog, loraTx, loraSent, loraRx, incoming, decoded,
          sinceTx, sinceRx>>

clockVars == <<millis, ticks>>
lcdVars == <<lcd, lcdSpill>>
txVars == <<serialBuf, txTime, txCount, txLed, txText, serialLog, loraTx,
            loraSent, sinceTx>>
rxVars == <<rxTime, rxCount, decodeErrors, rxLed, loraRx, incoming, decoded,
            sinceRx>>

\* unsigned long arithmetic: the value hi * 2^16 + lo
U32(n) == [hi |-> n \div HALFWORD, lo |-> n % HALFWORD]

U32Add(a, d) ==
  [hi |-> (a.hi + ((a.lo + d) \div HALFWORD)) % HALFWORD,
   lo |-> (a.lo + d) % HALFWORD]

U32Sub(a, b) ==
  IF a.lo >= b.lo
  THEN [hi |-> (a.hi - b.hi + HALFWORD) % HALFWORD, lo |-> a.lo - b.lo]
  ELSE [hi |-> (a.hi - b.hi - 1 + 2 * HALFWORD) % HALFWORD,
        lo |-> a.lo - b.lo + HALFWORD]

\* a > n and a = n for a constant n below 2^16
U32Gt(a, n) == a.hi > 0 \/ a.lo > n
U32Eq(a, n) == a.hi = 0 /\ a.lo = n

\* millis() - t in unsigned 32-bit arithmetic
Elapsed(now, t) == U32Sub(now, t)

\* real time: a span a grown by d milliseconds, which never wraps
SpanAdd(a, d) ==
  [hi |-> a.hi + ((a.lo + d) \div HALFWORD), lo |-> (a.lo + d) % HALFWORD]

\* ------------------------------------------------------------------------
\* transmitMorse, as a function of the transmit-side state
\* ------------------------------------------------------------------------
TxState ==
  [buf |-> serialBuf, txTime |-> txTime, txCount |-> txCount, txLed |-> txLed,
   txText |-> txText, log |-> serialLog, loraTx |-> loraTx, lcd |-> lcd,
   spill |-> lcdSpill, sent |-> loraSent, since |-> sinceTx]

\* variant: a message without any encodable character is not sent
transmitMorse_SkipEmpty(S, text) ==
  LET out == Encode(text)
      shown == Substring(toUpperCase(text), TEXT_COLS)
      l1  == LcdPrint(S.lcd, 1, 0, TxLabel)
      l2  == LcdPrint(l1, 1, 4, shown)
      l3  == LcdPrint(l2, 2, 0, Blank)
      l4  == LcdPrint(l3, 2, 0, Substring(out, LCD_COLS))
  IN  IF Len(out) = 0 THEN S
      ELSE [S EXCEPT !.txLed = "LOW",
                     !.txTime = millis,
                     !.since = U32(0),
                     !.loraTx = out,
                     !.sent = @ + 1,
                     !.txCount = @ + 1,
                     !.txText = text,
                     !.lcd = l4,
                     !.spill = LcdSpill(0, TxLabel) \o LcdSpill(4, shown)
                               \o LcdSpill(0, Blank)
                               \o LcdSpill(0, Substring(out, LCD_COLS))]

transmitMorse(S, text) ==
  LET out == Encode(text)
      shown == Substring(toUpperCase(text), TEXT_COLS)
      l1  == LcdPrint(S.lcd, 1, 0, TxLabel)
      l2  == LcdPrint(l1, 1, 4, shown)
      l3  == LcdPrint(l2, 2, 0, Blank)
      l4  == LcdPrint(l3, 2, 0, Substring(out, LCD_COLS))
  IN  [S EXCEPT !.txLed = "LOW",
                !.txTime = millis,
                !.since = U32(0),
                !.loraTx = out,
                !.sent = @ + 1,
                !.txCount = @ + 1,
                !.txText = text,
                !.lcd = l4,
                !.spill = LcdSpill(0, TxLabel) \o LcdSpill(4, shown)
                          \o LcdSpill(0, Blank)
                          \o LcdSpill(0, Substring(out, LCD_COLS))]

\* ------------------------------------------------------------------------
\* handleSerialInput: one pass of the while loop for character c, and the
\* loop over every available character
\* ------------------------------------------------------------------------
\* variant: a full buffer is discarded instead of transmitted
SerialChar_DropFull(S, c) ==
  IF c \in LineBreaks
  THEN IF Len(S.buf) > 0
       THEN [transmitMorse(S, S.buf) EXCEPT !.buf = <<>>, !.log = "INPUT"]
       ELSE S
  ELSE IF Len(S.buf) < MAX_SERIAL_BUF
       THEN [S EXCEPT !.buf = Append(@, c)]
       ELSE [S EXCEPT !.buf = <<>>, !.log = "WARN"]

\* variant: the character that finds the buffer full starts the next message
SerialChar_KeepChar(S, c) ==
  IF c \in LineBreaks
  THEN IF Len(S.buf) > 0
       THEN [transmitMorse(S, S.buf) EXCEPT !.buf = <<>>, !.log = "INPUT"]
       ELSE S
  ELSE IF Len(S.buf) < MAX_SERIAL_BUF
       THEN [S EXCEPT !.buf = Append(@, c)]
       ELSE [transmitMorse(S, S.buf) EXCEPT !.buf = <<c>>, !.log = "WARN"]

\* variant: the capacity test admits one character too many
SerialChar_OffByOne(S, c) ==
  IF c \in LineBreaks
  THEN IF Len(S.buf) > 0
       THEN [transmitMorse(S, S.buf) EXCEPT !.buf = <<>>, !.log = "INPUT"]
       ELSE S
  ELSE IF Len(S.buf) <= MAX_SERIAL_BUF
       THEN [S EXCEPT !.buf = Append(@, c)]
       ELSE [transmitMorse(S, S.buf) EXCEPT !.buf = <<>>, !.log = "WARN"]

\* variant: a line break flushes the buffer even when it is empty
SerialChar_FlushEmpty(S, c) ==
  IF c \in LineBreaks
  THEN [transmitMorse(S, S.buf) EXCEPT !.buf = <<>>, !.log = "INPUT"]
  ELSE IF Len(S.buf) < MAX_SERIAL_BUF
       THEN [S EXCEPT !.buf = Append(@, c)]
       ELSE [transmitMorse(S, S.buf) EXCEPT !.buf = <<>>, !.log = "WARN"]

SerialChar(S, c) ==
  IF c \in LineBreaks
  THEN IF Len(S.buf) > 0
       THEN [transmitMorse(S, S.buf) EXCEPT !.buf = <<>>, !.log = "INPUT"]
       ELSE S
  ELSE IF Len(S.buf) < MAX_SERIAL_BUF
       THEN [S EXCEPT !.buf = Append(@, c)]
       ELSE [transmitMorse(S, S.buf) EXCEPT !.buf = <<>>, !.log = "WARN"]

\* the while loop over the available characters avail[lo..hi]
RECURSIVE SerialLoop(_, _, _, _)
SerialLoop(S, avail, lo, hi) ==
  IF lo > hi THEN S
  ELSE IF lo = hi THEN SerialChar(S, avail[lo])
  ELSE LET mid == (lo + hi) \div 2
           half == SerialLoop(S, avail, lo, mid)
       IN  \* the test has the first half evaluated before the second
           IF half.txCount >= S.txCount
           THEN SerialLoop(half, avail, mid + 1, hi)
           ELSE half

handleSerialInput(avail) ==
  LET S == SerialLoop(TxState, avail, 1, Len(avail))
  IN  /\ serialBuf' = S.buf
      /\ txTime' = S.txTime
      /\ txCount' = S.txCount
      /\ txLed' = S.txLed
      /\ txText' = S.txText
      /\ serialLog' = S.log
      /\ loraTx' = S.loraTx
      /\ loraSent' = S.sent
      /\ sinceTx' = S.since
      /\ lcd' = S.lcd
      /\ lcdSpill' = S.spill
      /\ UNCHANGED rxVars
      /\ UNCHANGED <<clockVars, lastDebugPrint>>

\* ------------------------------------------------------------------------
\* handleIncomingLora for the packet pkt that parsePacket reports (the empty
\* packet: none), with the link quality rssi and snr (in quarter dB)
\* ------------------------------------------------------------------------
\* the read loop: number of bytes stored, idx on exit
\* variant: the loop bound leaves no room for the terminator
ReadCount_NoRoom(pSize) ==
  IF pSize < MAX_MESSAGE_LEN THEN pSize ELSE MAX_MESSAGE_LEN

\* variant: the loop stops one byte early
ReadCount_OneLess(pSize) ==
  IF pSize < MAX_MESSAGE_LEN - 2 THEN pSize ELSE MAX_MESSAGE_LEN - 2

ReadCount(pSize) ==
  IF pSize < MAX_MESSAGE_LEN - 1 THEN pSize ELSE MAX_MESSAGE_LEN - 1

\* String(incoming) and the LCD loop stop at the first NUL
CString(buf) ==
  IF \E k \in 1..Len(buf) : buf[k] = NUL
  THEN SubSeq(buf, 1, (CHOOSE k \in 1..Len(buf) :
                         buf[k] = NUL /\ \A m \in 1..(k - 1) : buf[m] # NUL) - 1)
  ELSE buf

QualityLine(rssi, snr) ==
  <<"R","S","S","I",":">> \o IntToStr(rssi)
  \o <<"d","B","m"," ","S","N","R",":">> \o SnrToStr(snr) \o <<" "," ">>

handleIncomingLora(pkt, rssi, snr) ==
  IF Len(pkt) = 0
  THEN UNCHANGED <<rxVars, txVars, lcdVars, clockVars, lastDebugPrint>>
  ELSE LET idx == ReadCount(Len(pkt))
           buf == Append(SubSeq(pkt, 1, idx), NUL)
           str == CString(buf)
           res == decodeMorse(str)
           shown == Substring(res.decoded, TEXT_COLS)
           l1  == LcdPrint(lcd, 1, 0, RxLabel)
           l2  == LcdPrint(l1, 1, 4, shown)
           l3  == LcdPrint(l2, 2, 0, Blank)
           l4  == LcdPrint(l3, 2, 0, Substring(str, LCD_COLS))
           l5  == LcdPrint(l4, 3, 0, QualityLine(rssi, snr))
       IN  /\ rxLed' = "LOW"
           /\ rxTime' = millis
           /\ sinceRx' = U32(0)
           /\ loraRx' = pkt
           /\ incoming' = buf
           /\ rxCount' = rxCount + 1
           /\ decoded' = res.decoded
           /\ decodeErrors' = decodeErrors + res.errors
           /\ lcd' = l5
           /\ lcdSpill' = LcdSpill(0, RxLabel) \o LcdSpill(4, shown)
                          \o LcdSpill(0, Blank)
                          \o LcdSpill(0, Substring(str, LCD_COLS))
                          \o LcdSpill(0, QualityLine(rssi, snr))
           /\ UNCHANGED <<txVars, clockVars, lastDebugPrint>>

\* ------------------------------------------------------------------------
\* manageStatusLeds and the heartbeat of loop()
\* ------------------------------------------------------------------------
\* variant: the LED goes off once the duration is reached
LedOff_Inclusive(now, start) ==
  U32Gt(Elapsed(now, start), LED_DUR) \/ U32Eq(Elapsed(now, start), LED_DUR)

\* variant: the LED goes off once the clock is past start + LED_DUR
LedOff_Deadline(now, start) ==
  LET deadline == U32Add(start, LED_DUR)
  IN  now.hi > deadline.hi \/ (now.hi = deadline.hi /\ now.lo > deadline.lo)

LedOff(now, start) == U32Gt(Elapsed(now, start), LED_DUR)

\* variant: the pass looks after the TX LED only
manageStatusLeds_TxOnly ==
  /\ txLed' = IF LedOff(millis, txTime) THEN "HIGH" ELSE txLed
  /\ rxLed' = rxLed
  /\ UNCHANGED <<serialBuf, txTime, txCount, txText, serialLog, loraTx>>
  /\ UNCHANGED <<rxTime, rxCount, decodeErrors, loraRx, incoming, decoded>>
  /\ UNCHANGED <<loraSent, sinceTx, sinceRx>>
  /\ UNCHANGED <<lcdVars, clockVars, lastDebugPrint>>

manageStatusLeds ==
  /\ txLed' = IF LedOff(millis, txTime) THEN "HIGH" ELSE txLed
  /\ rxLed' = IF LedOff(millis, rxTime) THEN "HIGH" ELSE rxLed
  /\ UNCHANGED <<serialBuf, txTime, txCount, txText, serialLog, loraTx>>
  /\ UNCHANGED <<rxTime, rxCount, decodeErrors, loraRx, incoming, decoded>>
  /\ UNCHANGED <<loraSent, sinceTx, sinceRx>>
  /\ UNCHANGED <<lcdVars, clockVars, lastDebugPrint>>

ReportDue(now, last) == U32Gt(Elapsed(now, last), HEARTBEAT)

\* variant: the report starts a new counting period
heartbeat_ResetCounters ==
  /\ lastDebugPrint' = IF ReportDue(millis, lastDebugPrint)
                       THEN millis ELSE lastDebugPrint
  /\ txCount' = IF ReportDue(millis, lastDebugPrint) THEN 0 ELSE txCount
  /\ rxCount' = IF ReportDue(millis, lastDebugPrint) THEN 0 ELSE rxCount
  /\ decodeErrors' = IF ReportDue(millis, lastDebugPrint)
                     THEN 0 ELSE decodeErrors
  /\ UNCHANGED <<serialBuf, txTime, txLed, txText, serialLog, loraTx,
                 loraSent, sinceTx>>
  /\ UNCHANGED <<rxTime, rxLed, loraRx, incoming, decoded, sinceRx>>
  /\ UNCHANGED <<lcdVars, clockVars>>

heartbeat ==
  /\ lastDebugPrint' = IF ReportDue(millis, lastDebugPrint)
                       THEN millis ELSE lastDebugPrint
  /\ UNCHANGED <<txVars, rxVars, lcdVars, clockVars>>

\* ------------------------------------------------------------------------
\* The state when setup() returns (its delays take BootTime milliseconds)
\* ------------------------------------------------------------------------
BootTime == 5400

Init ==
  /\ pc = "serial"
  /\ millis = U32(BootTime)
  /\ ticks = 0
  /\ serialBuf = <<>>
  /\ txTime = U32(0)
  /\ rxTime = U32(0)
  /\ lastDebugPrint = U32(0)
  /\ txCount = 0
  /\ rxCount = 0
  /\ decodeErrors = 0
  /\ txLed = "HIGH"
  /\ rxLed = "HIGH"
  /\ lcd = LcdInit
  /\ lcdSpill = <<>>
  /\ txText = <<>>
  /\ serialLog = ""
  /\ loraTx = <<>>
  /\ loraSent = 0
  /\ loraRx = <<>>
  /\ incoming = <<>>
  /\ decoded = <<>>
  /\ sinceTx = U32(BootTime)
  /\ sinceRx = U32(BootTime)

\* ------------------------------------------------------------------------
\* Inputs
\* ------------------------------------------------------------------------
Fill == "h"
InChars == {"h", " ", "1"}
FreeInputs == SeqsUpTo(InChars, MaxIn) \ {<<>>}
BulkInputs == {Rep(Fill, n) : n \in (MAX_SERIAL_BUF - 2)..(MAX_SERIAL_BUF + 1)}
SingleInputs == {<<c>> : c \in InChars}
BreakInputs == {<<"\n">>, <<"\r">>, <<"\r", "\n">>}
SerialInputs == FreeInputs \cup BulkInputs \cup SingleInputs \cup BreakInputs

\* what the serial line offers to one handleSerialInput call: line breaks at
\* any time, free-form bursts and long runs while the buffer is short, and
\* single characters once the buffer is nearly full
Offered(avail) ==
  /\ txCount < MaxTx
  /\ \/ avail \in BreakInputs
     \/ Len(serialBuf) < MaxIn /\ avail \in FreeInputs \cup BulkInputs
     \/ Len(serialBuf) >= MAX_SERIAL_BUF - 1 /\ avail \in SingleInputs

PktChars == {".", "-", " ", "/", "x", NUL}
NoisePackets ==
  (SeqsUpTo(PktChars, MaxNoise) \ {<<>>})
  \cup {Rep(".", n) : n \in (MAX_MESSAGE_LEN - 2)..(MAX_MESSAGE_LEN + 1)}
\* link quality of a packet: <<rssi in dBm, snr in quarter dB>>
Quality == {<<-120, -50>>, <<-47, 38>>, <<-5, 1>>}

\* ------------------------------------------------------------------------
\* SpecInput: the serial line feeding the accumulator and transmitMorse
\* ------------------------------------------------------------------------
SerialInput ==
  \E avail \in SerialInputs :
    /\ Offered(avail)
    /\ handleSerialInput(avail)
    /\ UNCHANGED pc

NextInput == SerialInput
SpecInput == Init /\ [][NextInput]_vars

\* ------------------------------------------------------------------------
\* SpecLink: a sending node and a receiving node running this firmware; the
\* transmit-side variables are the sender's, the receive-side variables the
\* receiver's, and the receiver gets the sender's packet or a foreign one
\* ------------------------------------------------------------------------
Deliver ==
  /\ txCount > 0
  /\ rxCount < MaxRx
  /\ \E q \in Quality : handleIncomingLora(loraTx, q[1], q[2])
  /\ UNCHANGED pc

\* the sender is typed to until the receiver has got a packet; the packet
\* arrives with one link quality
LinkInput == rxCount = 0 /\ SerialInput
LinkQuality == <<-47, 38>>

LinkDeliver ==
  /\ txCount > 0
  /\ rxCount < MaxRx
  /\ handleIncomingLora(loraTx, LinkQuality[1], LinkQuality[2])
  /\ UNCHANGED pc

NextLink == LinkInput \/ LinkDeliver
SpecLink == Init /\ [][NextLink]_vars

\* ------------------------------------------------------------------------
\* SpecRx: a node receiving packets of any origin and any length
\* ------------------------------------------------------------------------
Foreign ==
  /\ rxCount < MaxRx
  /\ \E pkt \in NoisePackets, q \in Quality :
       handleIncomingLora(pkt, q[1], q[2])
  /\ UNCHANGED pc

NextRx == Foreign
SpecRx == Init /\ [][NextRx]_vars

\* ------------------------------------------------------------------------
\* SpecCodec: a text over the supported alphabet is pending in the buffer,
\* its line break arrives, and a receiving node gets the packet
\* ------------------------------------------------------------------------
WordChars == {"S", "O", "e", "z", " ", "1"}
Texts ==
  {<<c>> : c \in UpperChars \cup LowerChars \cup {" "}}
  \cup (SeqsUpTo(WordChars, MaxTextLen) \ {<<>>})

InitCodec ==
  /\ pc = "serial"
  /\ millis = U32(BootTime)
  /\ ticks = 0
  /\ serialBuf \in Texts
  /\ txTime = U32(0)
  /\ rxTime = U32(0)
  /\ lastDebugPrint = U32(0)
  /\ txCount = 0
  /\ rxCount = 0
  /\ decodeErrors = 0
  /\ txLed = "HIGH"
  /\ rxLed = "HIGH"
  /\ lcd = LcdInit
  /\ lcdSpill = <<>>
  /\ txText = <<>>
  /\ serialLog = ""
  /\ loraTx = <<>>
  /\ loraSent = 0
  /\ loraRx = <<>>
  /\ incoming = <<>>
  /\ decoded = <<>>
  /\ sinceTx = U32(BootTime)
  /\ sinceRx = U32(BootTime)

SendLine ==
  /\ Len(serialBuf) > 0
  /\ \E c \in LineBreaks : handleSerialInput(<<c>>)
  /\ UNCHANGED pc

NextCodec == SendLine \/ Deliver
SpecCodec == InitCodec /\ [][NextCodec]_vars

\* ------------------------------------------------------------------------
\* Spec: loop(), one handler per step in the order of the code, while the
\* clock advances between the steps
\* ------------------------------------------------------------------------
LoopInputs == {<<>>, <<"h">>, <<"\n">>}
LoopPackets == {<<>>, <<"x">>}
Advances == {1, LED_DUR - 1, HEARTBEAT}

LoopSerial ==
  /\ pc = "serial"
  /\ pc' = "lora"
  /\ \E avail \in LoopInputs :
       /\ \/ avail = <<>>
          \/ txCount < MaxTx /\ avail \in BreakInputs
          \/ txCount < MaxTx /\ Len(serialBuf) < MaxIn
       /\ handleSerialInput(avail)

LoopLora ==
  /\ pc = "lora"
  /\ pc' = "leds"
  /\ \E pkt \in LoopPackets :
       /\ rxCount < MaxRx \/ pkt = <<>>
       /\ handleIncomingLora(pkt, LinkQuality[1], LinkQuality[2])

LoopLeds ==
  /\ pc = "leds"
  /\ pc' = "stats"
  /\ manageStatusLeds

LoopStats ==
  /\ pc = "stats"
  /\ pc' = "serial"
  /\ heartbeat

Tick ==
  /\ ticks < MaxTicks
  /\ \E d \in Advances :
       /\ millis' = U32Add(millis, d)
       /\ sinceTx' = SpanAdd(sinceTx, d)
       /\ sinceRx' = SpanAdd(sinceRx, d)
  /\ ticks' = ticks + 1
  /\ UNCHANGED <<pc, serialBuf, txTime, txCount, txLed, txText, serialLog,
                 loraTx, loraSent>>
  /\ UNCHANGED <<rxTime, rxCount, decodeErrors, rxLed, loraRx, incoming,
                 decoded>>
  /\ UNCHANGED <<lcdVars, lastDebugPrint>>

Next == LoopSerial \/ LoopLora \/ LoopLeds \/ LoopStats \/ Tick
Spec == Init /\ [][Next]_vars

\* ------------------------------------------------------------------------
\* SpecWrap: loop() on a node that has been idle since power-up, from
\* WrapLead milliseconds before the 32-bit clock wraps around to 0
\* ------------------------------------------------------------------------
WrapLead == 200
LastReport == 20000

InitWrap ==
  /\ pc = "serial"
  /\ millis = [hi |-> HALFWORD - 1, lo |-> HALFWORD - WrapLead]
  /\ ticks = 0
  /\ serialBuf = <<>>
  /\ txTime = U32(0)
  /\ rxTime = U32(0)
  /\ lastDebugPrint = [hi |-> HALFWORD - 1, lo |-> HALFWORD - WrapLead - LastReport]
  /\ txCount = 0
  /\ rxCount = 0
  /\ decodeErrors = 0
  /\ txLed = "HIGH"
  /\ rxLed = "HIGH"
  /\ lcd = LcdInit
  /\ lcdSpill = <<>>
  /\ txText = <<>>
  /\ serialLog = ""
  /\ loraTx = <<>>
  /\ loraSent = 0
  /\ loraRx = <<>>
  /\ incoming = <<>>
  /\ decoded = <<>>
  /\ sinceTx = [hi |-> HALFWORD - 1, lo |-> HALFWORD - WrapLead]
  /\ sinceRx = [hi |-> HALFWORD - 1, lo |-> HALFWORD - WrapLead]

SpecWrap == InitWrap /\ [][Next]_vars

\* ------------------------------------------------------------------------
\* SpecLive: loop() called again and again while the clock keeps running.
\* The clock of the model stops after MaxTicks advances; messages and
\* packets come before the last advance, and the last advance is longer
\* than LED_DUR, which is what a clock that keeps running brings about
\* after the last event.
\* ------------------------------------------------------------------------
LiveInputs == {<<>>, <<"h", "\n">>}
LiveAdvances == {1, LED_DUR}

LiveSerial ==
  /\ pc = "serial"
  /\ pc' = "lora"
  /\ \E avail \in LiveInputs :
       /\ avail = <<>> \/ (ticks < MaxTicks /\ txCount < MaxTx)
       /\ handleSerialInput(avail)

LiveLora ==
  /\ pc = "lora"
  /\ pc' = "leds"
  /\ \E pkt \in LoopPackets :
       /\ pkt = <<>> \/ (ticks < MaxTicks /\ rxCount < MaxRx)
       /\ handleIncomingLora(pkt, LinkQuality[1], LinkQuality[2])

LiveTick ==
  /\ ticks < MaxTicks
  /\ \E d \in (IF ticks = MaxTicks - 1 THEN {LED_DUR + 1} ELSE LiveAdvances) :
       /\ millis' = U32Add(millis, d)
       /\ sinceTx' = SpanAdd(sinceTx, d)
       /\ sinceRx' = SpanAdd(sinceRx, d)
  /\ ticks' = ticks + 1
  /\ UNCHANGED <<pc, serialBuf, txTime, txCount, txLed, txText, serialLog,
                 loraTx, loraSent>>
  /\ UNCHANGED <<rxTime, rxCount, decodeErrors, rxLed, loraRx, incoming,
                 decoded>>
  /\ UNCHANGED <<lcdVars, lastDebugPrint>>

NextLive == LiveSerial \/ LiveLora \/ LoopLeds \/ LoopStats \/ LiveTick

\* the Arduino core calls loop() forever, and the timer counts on
SpecLive ==
  /\ Init /\ [][NextLive]_vars
  /\ WF_vars(LiveSerial) /\ WF_vars(LiveLora)
  /\ WF_vars(LoopLeds) /\ WF_vars(LoopStats)
  /\ WF_vars(LiveTick)

\* ------------------------------------------------------------------------
\* Properties
\* ------------------------------------------------------------------------
Min(a, b) == IF a < b THEN a ELSE b

Supported(t) ==
  \A i \in 1..Len(t) : t[i] \in UpperChars \cup LowerChars \cup {" "}

\* C1 (SpecCodec): for a text over letters and spaces, decoding the stream
\* that the encoder produced yields the upper-cased text, without a decode
\* error; the spaces of the text come back one for one.
C1_RoundTrip ==
  (txCount > 0 /\ Supported(txText)) =>
    /\ decodeMorse(loraTx).decoded = toUpperCase(txText)
    /\ decodeMorse(loraTx).errors = 0

C1_Witness ==
  /\ txCount > 0
  /\ txText = <<" ", " ", "e">>
  /\ decodeMorse(loraTx).decoded = <<" ", " ", "E">>

\* C2 as stated (SpecInput): once the 100th character has been handled the
\* content has been flushed, so no state has 100 characters pending.
C2_FlushAt100 == Len(serialBuf) < MAX_SERIAL_BUF

\* C2 as amended (SpecInput): 100 characters stay pending; the next
\* character that is not a line break forces the flush, with the effect a
\* line break would have had on those 100 characters (the log line apart),
\* and the buffer is empty afterwards.
C2_FlushOn101 ==
  [][\A c \in InChars :
       (Len(serialBuf) = MAX_SERIAL_BUF /\ handleSerialInput(<<c>>)) =>
         LET L == SerialChar(TxState, "\n")
         IN  /\ L.txText = serialBuf
             /\ serialBuf' = L.buf
             /\ serialBuf' = <<>>
             /\ txText' = L.txText
             /\ loraTx' = L.loraTx
             /\ txCount' = L.txCount
             /\ txTime' = L.txTime
             /\ txLed' = L.txLed
             /\ lcd' = L.lcd]_vars

C2_Witness ==
  /\ serialLog = "WARN"
  /\ Len(txText) = MAX_SERIAL_BUF
  /\ loraTx = Encode(txText)
  /\ serialBuf = <<>>

\* C3 (SpecInput): the Morse stream handed to the radio is at most 256
\* bytes long.
C3_PayloadBound == Len(loraTx) <= MAX_MESSAGE_LEN

C5_EndToEnd ==
  (/\ txCount > 0 /\ serialLog = "INPUT" /\ Supported(txText)
   /\ rxCount > 0 /\ loraRx = loraTx)
    => decoded = toUpperCase(txText)

\* C6 (SpecRx): every cell of incoming[] that a reception writes, the
\* terminator included, lies within the MAX_MESSAGE_LEN cells of the array,
\* and the stored bytes are the leading bytes of the packet.
C6_WritesInBounds ==
  rxCount > 0 =>
    /\ Len(incoming) >= 1
    /\ Len(incoming) <= MAX_MESSAGE_LEN
    /\ incoming[Len(incoming)] = NUL
    /\ Len(incoming) - 1 <= Len(loraRx)
    /\ \A k \in 1..(Len(incoming) - 1) : incoming[k] = loraRx[k]

C6_Witness ==
  /\ rxCount > 0
  /\ Len(loraRx) > MAX_MESSAGE_LEN
  /\ Len(incoming) = MAX_MESSAGE_LEN

Garbage(p) ==
  /\ Len(p) > 0
  /\ 10 * Cardinality({k \in 1..Len(p) : p[k] \notin {".", "-", " ", "/"}})
       > Len(p)

\* C8 (SpecRx): a reception of a packet with more than 10% invalid
\* characters decodes nothing and leaves the display as it was.
C8_GarbageRejected ==
  [][(rxCount' # rxCount /\ Garbage(loraRx')) =>
       /\ decoded' = decoded
       /\ decodeErrors' = decodeErrors
       /\ lcd' = lcd]_vars

\* C9 (SpecInput): a character that finds 100 characters buffered has
\* exactly those 100 characters transmitted in that step, by transmitMorse,
\* is itself dropped, and leaves the buffer empty.
C9_OverflowContent ==
  [][\A c \in InChars :
       (Len(serialBuf) = MAX_SERIAL_BUF /\ handleSerialInput(<<c>>)) =>
         /\ txText' = serialBuf
         /\ loraTx' = Encode(serialBuf)
         /\ txCount' = txCount + 1
         /\ txTime' = millis
         /\ txLed' = "LOW"
         /\ serialLog' = "WARN"
         /\ serialBuf' = <<>>]_vars

C9_Witness ==
  /\ serialLog = "WARN"
  /\ txCount = 1
  /\ loraTx = Encode(txText)
  /\ txText = Append(Rep(Fill, MAX_SERIAL_BUF - 1), " ")
  /\ serialBuf = <<>>

\* C10 (SpecInput): the buffer never holds more than 100 characters, and a
\* message handed to transmitMorse has between 1 and 100 characters.
C10_BufferCapacity ==
  /\ Len(serialBuf) <= MAX_SERIAL_BUF
  /\ txCount > 0 => (Len(txText) >= 1 /\ Len(txText) <= MAX_SERIAL_BUF)

C10_Witness ==
  /\ Len(serialBuf) = MAX_SERIAL_BUF
  /\ txCount = 0

\* the tokens of a Morse stream: its maximal runs of characters other than
\* the space, in order
TokenStarts(s) ==
  {i \in 1..Len(s) : s[i] # " " /\ (i = 1 \/ s[i - 1] = " ")}

TokenAt(s, i) ==
  SubSeq(s, i, CHOOSE j \in i..Len(s) :
                 /\ \A k \in i..j : s[k] # " "
                 /\ j = Len(s) \/ s[j + 1] = " ")

Tokens(s) ==
  [n \in 1..Cardinality(TokenStarts(s)) |->
     TokenAt(s, CHOOSE i \in TokenStarts(s) :
                  Cardinality({j \in TokenStarts(s) : j < i}) = n - 1)]

Unmatched(t) == t # <<"/">> /\ t \notin MorseSymbols

\* what a token stands for: the word space, its letter, or '?'
TokenText(t) ==
  IF t = <<"/">> THEN " "
  ELSE IF t \in MorseSymbols THEN UpperCase[MorseIndex[t]]
  ELSE "?"

\* C11 (SpecRx): a reception decodes its stream token by token: every token
\* that is not "/" and is no table entry gives one '?' at its place and adds
\* one to decodeErrors, every other token gives its letter (or the word
\* space) and leaves the counter alone.
C11_UnknownSymbol ==
  [][rxCount' # rxCount =>
       \A toks \in {Tokens(s) : s \in {CString(incoming')}} :
         /\ decoded' = [n \in 1..Len(toks) |-> TokenText(toks[n])]
         /\ decodeErrors' = decodeErrors
              + Cardinality({n \in 1..Len(toks) : Unmatched(toks[n])})]_vars
\* a Latin letter or the space
IsSupported(c) == c \in UpperChars \cup LowerChars \cup {" "}

C13_CountersMonotonic ==
  [][/\ txCount' >= txCount
     /\ rxCount' >= rxCount
     /\ decodeErrors' >= decodeErrors
     /\ (pc = "stats" /\ pc' = "serial") =>
          /\ UNCHANGED <<txVars, rxVars, lcdVars, clockVars>>
          /\ lastDebugPrint' \in {lastDebugPrint, millis}]_vars

\* a report has just been made with all three counters above zero
C13_Witness ==
  /\ pc = "serial"
  /\ lastDebugPrint = millis
  /\ txCount > 0 /\ rxCount > 0 /\ decodeErrors > 0

\* a text cut or padded with spaces to the width of a display row
Padded(s) == [k \in 1..LCD_COLS |-> IF k <= Len(s) THEN s[k] ELSE " "]

\* C14 (SpecRx): a display update leaves each row it writes holding the new
\* content padded with spaces to 20 columns, and prints nothing past the
\* 20th column of a row: rows 1 and 2 for a transmission, rows 1, 2 and 3
\* for a reception.
C14_RowsExact ==
  [][/\ txCount' # txCount =>
          /\ lcdSpill' = <<>>
          /\ lcd'[1] = Padded(<<"T","X",":"," ">>
                              \o Substring(toUpperCase(txText'), TEXT_COLS))
          /\ lcd'[2] = Padded(loraTx')
     /\ rxCount' # rxCount =>
          /\ lcdSpill' = <<>>
          /\ lcd'[1] = Padded(<<"R","X",":"," ">>
                              \o Substring(decoded', TEXT_COLS))
          /\ lcd'[2] = Padded(CString(incoming'))
          /\ \E q \in Quality : lcd'[3] = Padded(QualityLine(q[1], q[2]))]_vars

\* C15 (SpecInput): line breaks that arrive while the buffer is empty send
\* nothing and change neither the buffer, the counter, the TX time and LED
\* nor the display; the terminator "\r\n" after a pending message makes
\* one transmission, of that message.
C15_EmptyBreakNoOp ==
  [][\A avail \in BreakInputs :
       /\ (serialBuf = <<>> /\ handleSerialInput(avail)) =>
            UNCHANGED <<serialBuf, txCount, txTime, txLed, txText, serialLog,
                        loraTx, loraSent, lcd, lcdSpill>>
       /\ (serialBuf # <<>> /\ handleSerialInput(avail)) =>
            /\ txCount' = txCount + 1
            /\ loraSent' = loraSent + 1
            /\ txText' = serialBuf
            /\ serialBuf' = <<>>]_vars

\* a message has been sent on its line break, the TX LED is lit, and the
\* serial line goes on offering line breaks to the empty buffer
C15_Witness ==
  /\ serialBuf = <<>>
  /\ serialLog = "INPUT"
  /\ txCount = 1 /\ txCount < MaxTx
  /\ txLed = "LOW"

\* the stream with a space put behind every '/' that is not followed by one:
\* discarding that space leaves the next character where it was
Glued(s) == {i \in 1..(Len(s) - 1) : s[i] = "/" /\ s[i + 1] # " "}

Delimited(s) ==
  LET place(i) == i + Cardinality({g \in Glued(s) : g < i})
  IN  [k \in 1..(Len(s) + Cardinality(Glued(s))) |->
         IF \E i \in 1..Len(s) : place(i) = k
         THEN s[CHOOSE i \in 1..Len(s) : place(i) = k]
         ELSE " "]

\* C16 (SpecRx): at a '/' the decoder gives one space and discards the next
\* character only if that is a space; any other character behind the '/'
\* is decoded as part of the next token, as if a space had stood between.
C16_SkipOnlyDelimiter ==
  [][rxCount' # rxCount =>
       \A s \in {Delimited(CString(incoming'))} :
         /\ decoded' = decodeMorse(s).decoded
         /\ decodeErrors' = decodeErrors + decodeMorse(s).errors]_vars

\* C17 (SpecRx): for a stream that does not end with a space, a reception
\* gives the decoded text and the decode errors that the same stream with
\* one space appended gives: the last token is looked up all the same.
C17_FinalToken ==
  [][rxCount' # rxCount =>
       \A s \in {CString(incoming')} :
         (Len(s) = 0 \/ s[Len(s)] # " ") =>
           /\ decoded' = decodeMorse(Append(s, " ")).decoded
           /\ decodeErrors' = decodeErrors + decodeMorse(Append(s, " ")).errors]_vars

\* the only token of the stream, with no space behind it, has been decoded
C17_Witness ==
  /\ rxCount > 0
  /\ loraRx = <<".", "-">>
  /\ decoded = <<"A">>
  /\ decodeErrors = 0

\* C18 (SpecLive): a lit TX LED goes off unless another transmission comes
\* first, and a TX LED that is off stays off until txCount grows, which is
\* also the only way it gets lit; the same for the RX LED and rxCount.
C18_IndicatorLiveness ==
  /\ \A n \in 0..MaxTx :
       (txLed = "LOW" /\ txCount = n) ~> (txLed = "HIGH" \/ txCount > n)
  /\ \A n \in 0..MaxRx :
       (rxLed = "LOW" /\ rxCount = n) ~> (rxLed = "HIGH" \/ rxCount > n)
  /\ [][(txLed = "HIGH" /\ txCount' = txCount) => txLed' = "HIGH"]_vars
  /\ [][(rxLed = "HIGH" /\ rxCount' = rxCount) => rxLed' = "HIGH"]_vars

\* both LEDs have been lit by their events and have gone off again
C18_Witness ==
  /\ txCount > 0 /\ txLed = "HIGH"
  /\ rxCount > 0 /\ rxLed = "HIGH"

\* C19 (SpecInput): txCount always equals the number of packets handed to
\* the radio, and a character that flushes the buffer (a line break on a
\* pending message, any other character on a full buffer) has one packet
\* sent, the encoding of the message even when that is empty, and txCount
\* grow by one.
C19_OnePacketPerFlush ==
  /\ [](txCount = loraSent)
  /\ [][\A c \in LineBreaks \cup InChars :
         (/\ IF c \in LineBreaks THEN Len(serialBuf) > 0
                                 ELSE Len(serialBuf) = MAX_SERIAL_BUF
          /\ handleSerialInput(<<c>>)) =>
           /\ txCount' = txCount + 1
           /\ loraSent' = loraSent + 1
           /\ loraTx' = Encode(serialBuf)]_vars

\* the message "1" has been flushed: one packet, with an empty stream
C19_Witness ==
  /\ txCount = 1
  /\ loraSent = 1
  /\ txText = <<"1">>
  /\ loraTx = <<>>
  /\ serialBuf = <<>>

\* C20 (SpecWrap): a manageStatusLeds pass turns an LED off exactly if more
\* than LED_DUR milliseconds have really passed since its trigger, also
\* when the clock has wrapped around to 0 in between.
C20_WrapAround ==
  [][(pc = "leds" /\ pc' = "stats") =>
       /\ txLed' = IF sinceTx.hi > 0 \/ sinceTx.lo > LED_DUR
                   THEN "HIGH" ELSE txLed
       /\ rxLed' = IF sinceRx.hi > 0 \/ sinceRx.lo > LED_DUR
                   THEN "HIGH" ELSE rxLed]_vars

\* a transmission before the wrap, the clock past it, and the TX LED just
\* turned off by a pass LED_DUR + 1 ms after the trigger
C20_Witness ==
  /\ pc = "stats"
  /\ txCount > 0
  /\ txTime.hi = HALFWORD - 1
  /\ millis.hi = 0
  /\ sinceTx = U32(LED_DUR + 1)
  /\ txLed = "HIGH"

====
